---------------------------- MODULE Spec2Model ----------------------------
(***************************************************************************)
(* State-machine model of src/src/connection_manager.py: the keyed pool of *)
(* mem0 clients (ConnectionManager), its reference counts, its timestamps, *)
(* the threading.Lock that guards it and the periodic cleanup thread.      *)
(*                                                                         *)
(* Every access of a table that another thread can change without the lock *)
(* is a step of its own; a thread's position is pc[t].  _cleanup_client is *)
(* one group of steps shared by all of its callers, as in the source.      *)
(***************************************************************************)
EXTENDS Integers, FiniteSets, Sequences, TLC

VARIABLES
    clients,              \* self._clients            : client_id -> handle
    connection_counts,    \* self._connection_counts  : client_id -> int
    last_used,            \* self._last_used          : client_id -> time
    client_created_time,  \* self.client_created_time : client_id -> time
    lock,                 \* self._lock: the thread that holds it, or NoThread
    now,                  \* the clock read by time.time()
    wake_at,              \* when the cleanup thread's wait(interval) times out
    pc,                   \* position of every thread
    op,                   \* the public operation every thread is running
    key,                  \* client_id argument of the public operation
    cleanup_id,           \* client_id parameter of _cleanup_client
    current_time,         \* local current_time of get_client
    cleanup_time,         \* local current_time of the two cleanup scans
    clients_to_remove,    \* local clients_to_remove / client_ids still to visit
    client,               \* local client of _cleanup_client
    at_entry,             \* history: what the thread's current call found in the pool
    nextHandle,           \* the next handle the factory will build
    closeCalls,           \* history: per handle, close() calls on its two resources
    failures,             \* history: number of close() calls that raised so far
    factory_raised,       \* history: _create_client has raised in some get_client
    stop_cleanup,         \* self._stop_cleanup: the Event is set
    cleanup_thread,       \* self._cleanup_thread: a thread, or NoThread for None
    joined,               \* the thread a stop_periodic_cleanup call joins
    hook,                 \* position of the server's stop hook (main.py)
    database_url,         \* local database_url of get_connection_count: set or not
    count,                \* local count of get_connection_count, NoCount without one
    returned,             \* what get_connection_count returns
    connection_manager,   \* the global _connection_manager: an instance, or 0 for None
    built,                \* history: number of ConnectionManager instances built
    manager,              \* what get_connection_manager returned to the thread
    mem0_client,          \* main.py: local mem0_client of mem0_lifespan, a handle
    managed,              \* position, client_id and history of managed_mem0_client
    held,                 \* history: per key, the handles returned and not yet released
    teardown,             \* one run of the try block of _cleanup_client, in detail
    events                \* history: number of calls made and clock ticks so far

tables == << clients, connection_counts, last_used, client_created_time >>
locals == << key, cleanup_id, current_time, cleanup_time, clients_to_remove, client >>
history == << nextHandle, closeCalls, failures, factory_raised >>
ctl == << pc, op, lock, at_entry >>
env == << now, events >>
lifecycle == << stop_cleanup, cleanup_thread, joined, hook >>
diag == << database_url, count, returned >>
single == << connection_manager, built, manager >>
extra == << mem0_client, managed, held, teardown >>
others == << diag, single, extra >>

vars == << clients, connection_counts, last_used, client_created_time, lock,
           now, wake_at, pc, op, key, cleanup_id, current_time, cleanup_time,
           clients_to_remove, client, at_entry, nextHandle,
           closeCalls, failures, factory_raised, stop_cleanup, cleanup_thread,
           joined, hook,
           database_url, count, returned, connection_manager, built, manager,
           mem0_client, managed, held, teardown, events >>

-----------------------------------------------------------------------------
(* Bounds of the model *)

MaxEvents == 6
MaxFailures == 1

(* Constructor parameters (ConnectionManager.__init__), instantiated small *)

max_pool_size == 2
cleanup_interval == 1
idle_timeout == 1
max_lifetime == 2

Keys == {"a", "b", "c"}
Handles == 1..MaxEvents
Callers == {"t1"}
Racers == {"t1", "t2"}
Reclaimer == "reclaimer"
Reclaimer2 == "reclaimer2"
Reclaimers == {Reclaimer, Reclaimer2}
Threads == Racers \cup Reclaimers
Server == "t1"
MainServer == "a"
NoThread == "nobody"
NoKey == "none"
NoHandle == 0
NoManager == 0
NoCount == {}
Counts == {0, 1}

-----------------------------------------------------------------------------
(* Python dict operations *)

EmptyDict == [x \in {} |-> 0]
Put(d, k, v) == [x \in (DOMAIN d) \cup {k} |-> IF x = k THEN v ELSE d[x]]
Del(d, k) == [x \in (DOMAIN d) \ {k} |-> d[x]]
Get(d, k, default) == IF k \in DOMAIN d THEN d[k] ELSE default

NoContext == [at |-> "none", client_id |-> NoKey, before |-> 0, raises |-> FALSE]

NoTeardown == [at |-> "none", vector |-> {}, db |-> {}, calls |-> << >>]

NoEntry == [present |-> FALSE, handle |-> NoHandle, count |-> 0, pool |-> {},
            quiet |-> FALSE, idle |-> {}, aged |-> {}]

Init ==
    /\ clients = EmptyDict
    /\ connection_counts = EmptyDict
    /\ last_used = EmptyDict
    /\ client_created_time = EmptyDict
    /\ lock = NoThread
    /\ now = 0
    /\ wake_at = [r \in Reclaimers |-> 0]
    /\ pc = [t \in Threads |-> IF t \in Reclaimers THEN "off" ELSE "idle"]
    /\ op = [t \in Threads |-> "none"]
    /\ key = [t \in Threads |-> NoKey]
    /\ cleanup_id = [t \in Threads |-> NoKey]
    /\ current_time = [t \in Threads |-> 0]
    /\ cleanup_time = [t \in Threads |-> 0]
    /\ clients_to_remove = [t \in Threads |-> {}]
    /\ client = [t \in Threads |-> NoHandle]
    /\ at_entry = [t \in Threads |-> NoEntry]
    /\ nextHandle = 1
    /\ closeCalls = [h \in Handles |-> [vs |-> 0, db |-> 0]]
    /\ failures = 0
    /\ factory_raised = FALSE
    /\ stop_cleanup = FALSE
    /\ cleanup_thread = NoThread
    /\ joined = [t \in Threads |-> NoThread]
    /\ hook = "none"
    /\ database_url = [t \in Threads |-> FALSE]
    /\ count = [t \in Threads |-> NoCount]
    /\ returned = [t \in Threads |-> NoCount]
    /\ connection_manager = NoManager
    /\ built = 0
    /\ manager = [t \in Threads |-> NoManager]
    /\ mem0_client = NoHandle
    /\ managed = NoContext
    /\ held = [k \in Keys |-> << >>]
    /\ teardown = NoTeardown
    /\ events = 0

(* A call or a clock tick uses up one of the MaxEvents events of a run. *)
Spend == events < MaxEvents /\ events' = events + 1

(* time.time() advancing *)
Tick ==
    /\ Spend
    /\ now' = now + 1
    /\ UNCHANGED << tables, lifecycle, others, wake_at, ctl, locals, history >>

-----------------------------------------------------------------------------
(* How a public operation ends *)

(* The locals of _cleanup_client go out of scope. *)
CleanupLocalsReset(t) ==
    /\ cleanup_id' = [cleanup_id EXCEPT ![t] = NoKey]
    /\ client' = [client EXCEPT ![t] = NoHandle]

(* All locals of the thread go out of scope. *)
LocalsReset(t) ==
    /\ CleanupLocalsReset(t)
    /\ key' = [key EXCEPT ![t] = NoKey]
    /\ current_time' = [current_time EXCEPT ![t] = 0]
    /\ cleanup_time' = [cleanup_time EXCEPT ![t] = 0]
    /\ clients_to_remove' = [clients_to_remove EXCEPT ![t] = {}]

(* The with-block is left and the method is over; the thread is then at
   "where". *)
Exit(t, where) ==
    /\ pc' = [pc EXCEPT ![t] = where]
    /\ op' = [op EXCEPT ![t] = "none"]
    /\ lock' = NoThread
    /\ at_entry' = [at_entry EXCEPT ![t] = NoEntry]
    /\ LocalsReset(t)

(* The method returns. *)
Leave(t) == Exit(t, "idle")

(* Where an exception that leaves a method takes the thread: to the except
   clause of the lifespan (main.py lines 53 and 76) when one of its hooks made
   the call, out of managed_mem0_client when line 328 made it, to the caller
   otherwise. *)
Raised ==
    IF hook \in {"acquire", "release", "stop", "evict"} \/ managed.at = "acquire"
    THEN "raised" ELSE "idle"

(* The method passes an exception on. *)
Raise(t) == Exit(t, Raised)

(* The cleanup thread is between two scans or not running. *)
ReclaimerQuiet ==
    \A r \in Reclaimers : pc[r] \in {"off", "new", "pc_wait", "pc_lock"}

(* What a call finds when it looks at the pool: the entry of its key (lines
   66 and 101), or for cleanup_all, which has no key, the handles in the
   pool (line 153); a scan adds the handles it finds idle and aged. *)
Entry(k) ==
    [present |-> k \in DOMAIN clients,
     handle |-> Get(clients, k, NoHandle),
     count |-> Get(connection_counts, k, 0),
     pool |-> IF k = NoKey THEN {clients[x] : x \in DOMAIN clients} ELSE {},
     quiet |-> ReclaimerQuiet,
     idle |-> {},
     aged |-> {}]

(* A thread moves on inside its operation. *)
Goto(t, where) ==
    /\ pc' = [pc EXCEPT ![t] = where]
    /\ UNCHANGED << op, lock, at_entry >>

(* A thread looks its key up (lines 66 and 101) and moves on. *)
LookUp(t, where) ==
    /\ pc' = [pc EXCEPT ![t] = where]
    /\ at_entry' = [at_entry EXCEPT ![t] = Entry(key[t])]
    /\ UNCHANGED << op, lock >>

(* A public operation that takes the lock on entry starts (with self._lock). *)
Begin(t, name, k, where) ==
    /\ pc[t] = "idle"
    /\ lock = NoThread
    /\ lock' = t
    /\ pc' = [pc EXCEPT ![t] = where]
    /\ op' = [op EXCEPT ![t] = name]
    /\ key' = [key EXCEPT ![t] = k]
    /\ at_entry' = [at_entry EXCEPT ![t] =
                        IF name = "cleanup_all" THEN Entry(k) ELSE NoEntry]

(* A caller makes the call: one more event of the run.  The server thread
   makes no call of its own once its stop hook runs, and the body of a
   managed_mem0_client block makes none. *)
Enter(t, name, k, where) ==
    /\ hook = "none"
    /\ managed.at = "none"
    /\ Spend
    /\ Begin(t, name, k, where)

-----------------------------------------------------------------------------
(* get_client *)

(* A variant of NeedsCreate that builds a new client on every call. *)
NeedsCreateAlways(k) == TRUE

(* line 66 *)
NeedsCreate(k) == k \notin DOMAIN clients

(* line 68 *)
PoolFull == Cardinality(DOMAIN clients) >= max_pool_size

(* A variant of Incremented that counts a call twice. *)
IncrementedTwice(c) == c + 2

(* line 78 *)
Incremented(c) == c + 1

(* lines 63-64: the lock is taken and the clock read *)
GetClientCall(t, k) ==
    /\ Enter(t, "get_client", k, "gc_check")
    /\ current_time' = [current_time EXCEPT ![t] = now]
    /\ UNCHANGED << tables, now, lifecycle, others, wake_at, cleanup_id, cleanup_time,
                    clients_to_remove, client, history >>

(* lines 66-68: absent or present, full or not *)
GetClientCheck(t) ==
    /\ pc[t] = "gc_check"
    /\ LookUp(t, IF NeedsCreate(key[t])
               THEN (IF PoolFull THEN "gc_force" ELSE "gc_create")
               ELSE "gc_incr")
    /\ UNCHANGED << tables, env, lifecycle, others, wake_at, locals, history >>

(* line 70 and lines 261-266: _force_cleanup_idle_connections is entered
   with the lock held and comes to its own "with self._lock" *)
ForceCleanupEnter(t) ==
    /\ pc[t] = "gc_force"
    /\ cleanup_time' = [cleanup_time EXCEPT ![t] = now]
    /\ clients_to_remove' = [clients_to_remove EXCEPT ![t] = {}]
    /\ Goto(t, "fc_lock")
    /\ UNCHANGED << tables, env, lifecycle, others, wake_at, key, cleanup_id, current_time,
                    client, history >>

(* A variant of CreateFails that stores the key with a count of 0 before
   the factory is called. *)
CreateFailsCounted(t) ==
    /\ Raise(t)
    /\ factory_raised' = TRUE
    /\ connection_counts' = Put(connection_counts, key[t], 0)
    /\ UNCHANGED << clients, nextHandle >>

(* line 74 and lines 91-92: get_mem0_client raises; the right-hand side of
   the assignment has no value, nothing is stored, and the exception leaves
   the with-block of line 63, which releases the lock *)
CreateFails(t) ==
    /\ Raise(t)
    /\ factory_raised' = TRUE
    /\ UNCHANGED << clients, connection_counts, nextHandle >>

(* line 74: the factory builds a handle, or raises; the handle is stored *)
GetClientCreate(t) ==
    /\ pc[t] = "gc_create"
    /\ \/ /\ clients' = Put(clients, key[t], nextHandle)
          /\ nextHandle' = nextHandle + 1
          /\ Goto(t, "gc_init")
          /\ UNCHANGED << locals, connection_counts, factory_raised >>
       \/ CreateFails(t)
    /\ UNCHANGED << last_used, client_created_time, env, lifecycle, others,
                    wake_at, closeCalls, failures >>

(* lines 75-76 *)
GetClientInit(t) ==
    /\ pc[t] = "gc_init"
    /\ connection_counts' = Put(connection_counts, key[t], 0)
    /\ client_created_time' = Put(client_created_time, key[t], current_time[t])
    /\ Goto(t, "gc_incr")
    /\ UNCHANGED << clients, last_used, env, lifecycle, others, wake_at, locals, history >>

(* lines 78-79; line 78 raises KeyError when the count is gone *)
GetClientIncr(t) ==
    /\ pc[t] = "gc_incr"
    /\ IF key[t] \in DOMAIN connection_counts
       THEN /\ connection_counts' =
                   Put(connection_counts, key[t],
                       Incremented(connection_counts[key[t]]))
            /\ last_used' = Put(last_used, key[t], current_time[t])
            /\ Goto(t, "gc_return")
            /\ UNCHANGED locals
       ELSE /\ Raise(t)
            /\ UNCHANGED << connection_counts, last_used >>
    /\ UNCHANGED << clients, client_created_time, env, lifecycle, others, wake_at, history >>

(* line 83; raises KeyError when the handle is gone.  The start hook keeps
   the handle (main.py line 44). *)
GetClientReturn(t) ==
    /\ pc[t] = "gc_return"
    /\ IF key[t] \in DOMAIN clients
       THEN /\ Leave(t)
            /\ held' = [held EXCEPT ![key[t]] = Append(@, clients[key[t]])]
            /\ mem0_client' = IF hook = "acquire" THEN clients[key[t]]
                                                 ELSE mem0_client
       ELSE /\ Raise(t)
            /\ UNCHANGED << held, mem0_client >>
    /\ UNCHANGED << tables, env, lifecycle, diag, single, managed, teardown,
                    wake_at, history >>

-----------------------------------------------------------------------------
(* _cleanup_client, run by release_client, cleanup_all, _periodic_cleanup
   and _force_cleanup_idle_connections *)

(* The cleanup thread goes back to "while not self._stop_cleanup.wait(interval)". *)
WaitAgain(t) ==
    /\ pc' = [pc EXCEPT ![t] = "pc_wait"]
    /\ at_entry' = [at_entry EXCEPT ![t] = NoEntry]
    /\ wake_at' = [wake_at EXCEPT ![t] = now + cleanup_interval]
    /\ LocalsReset(t)
    /\ UNCHANGED << op, lock >>

(* _cleanup_client returns to the statement after its call. *)
AfterCleanup(t) ==
    IF op[t] = "release_client"
    THEN Leave(t) /\ UNCHANGED wake_at
    ELSE /\ Goto(t, CASE op[t] = "cleanup_all" -> "ca_loop"
                      [] op[t] = "periodic" -> "pc_loop"
                      [] op[t] = "get_client" -> "fc_loop")
         /\ CleanupLocalsReset(t)
         /\ UNCHANGED << wake_at, key, current_time, cleanup_time,
                         clients_to_remove >>

(* An exception leaves _cleanup_client: release_client and cleanup_all pass
   it on (the with-block gives the lock back), line 256 and line 280 catch it. *)
CleanupRaises(t) ==
    CASE op[t] \in {"release_client", "cleanup_all"} ->
            Raise(t) /\ UNCHANGED wake_at
      [] op[t] = "periodic" -> WaitAgain(t)
      [] op[t] = "get_client" ->
            /\ Goto(t, "gc_create")
            /\ CleanupLocalsReset(t)
            /\ clients_to_remove' = [clients_to_remove EXCEPT ![t] = {}]
            /\ UNCHANGED << wake_at, key, current_time, cleanup_time >>

(* line 114 *)
CleanupCheck(t) ==
    /\ pc[t] = "cc_check"
    /\ IF cleanup_id[t] \in DOMAIN clients
       THEN Goto(t, "cc_read") /\ UNCHANGED << wake_at, locals >>
       ELSE AfterCleanup(t)
    /\ UNCHANGED << tables, env, lifecycle, others, history >>

(* line 116, outside the try block: KeyError when the entry has gone since *)
CleanupRead(t) ==
    /\ pc[t] = "cc_read"
    /\ IF cleanup_id[t] \in DOMAIN clients
       THEN /\ client' = [client EXCEPT ![t] = clients[cleanup_id[t]]]
            /\ Goto(t, "cc_vs")
            /\ UNCHANGED << wake_at, key, cleanup_id, current_time,
                            cleanup_time, clients_to_remove >>
       ELSE CleanupRaises(t)
    /\ UNCHANGED << tables, env, lifecycle, others, history >>

(* lines 118-129: the vector store's close() is called and may raise; the
   except clause of line 147 then ends _cleanup_client *)
CleanupCloseVector(t) ==
    /\ pc[t] = "cc_vs"
    /\ closeCalls' = [closeCalls EXCEPT ![client[t]].vs = @ + 1]
    /\ \/ /\ Goto(t, "cc_db")
          /\ UNCHANGED << wake_at, failures, locals >>
       \/ /\ failures < MaxFailures
          /\ failures' = failures + 1
          /\ AfterCleanup(t)
    /\ UNCHANGED << tables, env, lifecycle, others, nextHandle, factory_raised >>

(* lines 131-139: the database connection's close() (or the engine's
   dispose()) is called and may raise *)
CleanupCloseDb(t) ==
    /\ pc[t] = "cc_db"
    /\ closeCalls' = [closeCalls EXCEPT ![client[t]].db = @ + 1]
    /\ \/ /\ Goto(t, "cc_del_client")
          /\ UNCHANGED << wake_at, failures, locals >>
       \/ /\ failures < MaxFailures
          /\ failures' = failures + 1
          /\ AfterCleanup(t)
    /\ UNCHANGED << tables, env, lifecycle, others, nextHandle, factory_raised >>

(* line 142; a KeyError is caught at line 147 *)
CleanupDelClient(t) ==
    /\ pc[t] = "cc_del_client"
    /\ IF cleanup_id[t] \in DOMAIN clients
       THEN /\ clients' = Del(clients, cleanup_id[t])
            /\ Goto(t, "cc_del_count")
            /\ UNCHANGED << wake_at, locals >>
       ELSE /\ AfterCleanup(t)
            /\ UNCHANGED clients
    /\ UNCHANGED << connection_counts, last_used, client_created_time, env, lifecycle, others,
                    history >>

(* line 143; a KeyError is caught at line 147 *)
CleanupDelCount(t) ==
    /\ pc[t] = "cc_del_count"
    /\ connection_counts' = Del(connection_counts, cleanup_id[t])
    /\ AfterCleanup(t)
    /\ UNCHANGED << clients, last_used, client_created_time, env, lifecycle, others, history >>

-----------------------------------------------------------------------------
(* release_client *)

(* line 102 *)
Decremented(c) == c - 1

(* A variant of ShouldCleanup that keeps a client whose count is 0. *)
ShouldCleanupBelowZero(c) == c < 0

(* line 105 *)
ShouldCleanup(c) == c <= 0

(* A variant of HasCount that goes on to line 102 for every key. *)
HasCountAlways(k) == TRUE

(* line 101 *)
HasCount(k) == k \in DOMAIN connection_counts

(* The caller that makes a release_client(k) call is the one that has held
   its handle of k for the longest time, when there is one. *)
Released(k) == [held EXCEPT ![k] = IF @ = << >> THEN @ ELSE Tail(@)]

(* line 100 *)
ReleaseCall(t, k) ==
    /\ Enter(t, "release_client", k, "rc_check")
    /\ held' = Released(k)
    /\ UNCHANGED << tables, now, lifecycle, diag, single, mem0_client, managed,
                    teardown, wake_at, cleanup_id, current_time, cleanup_time,
                    clients_to_remove, client, history >>

(* line 101 *)
ReleaseCheck(t) ==
    /\ pc[t] = "rc_check"
    /\ IF HasCount(key[t])
       THEN LookUp(t, "rc_decr") /\ UNCHANGED locals
       ELSE Leave(t)
    /\ UNCHANGED << tables, env, lifecycle, others, wake_at, history >>

(* line 102; KeyError when the count has gone since line 101 *)
ReleaseDecr(t) ==
    /\ pc[t] = "rc_decr"
    /\ IF key[t] \in DOMAIN connection_counts
       THEN /\ connection_counts' =
                   Put(connection_counts, key[t],
                       Decremented(connection_counts[key[t]]))
            /\ Goto(t, "rc_test")
            /\ UNCHANGED locals
       ELSE /\ Raise(t)
            /\ UNCHANGED connection_counts
    /\ UNCHANGED << clients, last_used, client_created_time, env, lifecycle, others, wake_at,
                    history >>

(* lines 105-106; KeyError when the count has gone since line 102 *)
ReleaseTest(t) ==
    /\ pc[t] = "rc_test"
    /\ IF key[t] \notin DOMAIN connection_counts
       THEN Raise(t)
       ELSE IF ShouldCleanup(connection_counts[key[t]])
            THEN /\ cleanup_id' = [cleanup_id EXCEPT ![t] = key[t]]
                 /\ Goto(t, "cc_check")
                 /\ UNCHANGED << key, current_time, cleanup_time,
                                 clients_to_remove, client >>
            ELSE Leave(t)
    /\ UNCHANGED << tables, env, lifecycle, others, wake_at, history >>

-----------------------------------------------------------------------------
(* cleanup_all *)

(* lines 152-153 *)
CleanupAllCall(t) ==
    /\ Enter(t, "cleanup_all", NoKey, "ca_loop")
    /\ clients_to_remove' = [clients_to_remove EXCEPT ![t] = DOMAIN clients]
    /\ UNCHANGED << tables, now, lifecycle, others, wake_at, cleanup_id, current_time,
                    cleanup_time, client, history >>

-----------------------------------------------------------------------------
(* _periodic_cleanup and _force_cleanup_idle_connections *)

(* lines 239 and 243 *)
IsIdle(k, t) == t - last_used[k] > idle_timeout

(* lines 236, 241 and 243 *)
IsAged(k, t) == t - Get(client_created_time, k, t) > max_lifetime

(* line 243 *)
IsExpired(k, t) == IsIdle(k, t) \/ IsAged(k, t)

(* The handles stored under the keys of ks. *)
HandlesOf(ks) == {clients[k] : k \in ks \cap DOMAIN clients}

(* lines 264 and 273 *)
IsIdleUnderPressure(k, t) == t - last_used[k] > idle_timeout \div 2

(* Thread.is_alive(): started and not yet over *)
IsAlive(r) == pc[r] \notin {"off", "new"}

(* line 198 *)
CleanupRunning == cleanup_thread # NoThread /\ IsAlive(cleanup_thread)

(* The Thread object line 205 builds: one that is not running.  An object
   that was built and never started is referenced by self._cleanup_thread
   alone and is gone once that is assigned again. *)
FreshThread == IF pc[Reclaimer] \in {"off", "new"} THEN Reclaimer ELSE Reclaimer2

(* A method that does not hold the lock is over; the thread is then at
   "where". *)
Finish(t, where) ==
    /\ pc' = [pc EXCEPT ![t] = where]
    /\ op' = [op EXCEPT ![t] = "none"]
    /\ joined' = [joined EXCEPT ![t] = NoThread]

(* lines 198-199: nothing more happens while the thread is alive *)
StartCheck(t) ==
    /\ pc[t] = "idle"
    /\ IF CleanupRunning
       THEN UNCHANGED << pc, op >>
       ELSE /\ pc' = [pc EXCEPT ![t] = "st_clear"]
            /\ op' = [op EXCEPT ![t] = "start"]
    /\ UNCHANGED << tables, lock, now, wake_at, locals, at_entry, history,
                    lifecycle, others >>

(* start_periodic_cleanup is called *)
StartPeriodicCleanup(t) ==
    /\ hook = "none"
    /\ Spend
    /\ StartCheck(t)

(* line 204 *)
StartClear(t) ==
    /\ pc[t] = "st_clear"
    /\ stop_cleanup' = FALSE
    /\ pc' = [pc EXCEPT ![t] = "st_new"]
    /\ UNCHANGED << tables, lock, env, wake_at, op, locals, at_entry, history,
                    cleanup_thread, joined, others, hook >>

(* lines 205-209 *)
StartNew(t) ==
    /\ pc[t] = "st_new"
    /\ pc[FreshThread] \in {"off", "new"}
    /\ cleanup_thread' = FreshThread
    /\ pc' = [pc EXCEPT ![t] = "st_start",
                        ![FreshThread] = "new",
                        ![Reclaimer2] =
                            IF FreshThread # Reclaimer2 /\ @ = "new"
                            THEN "off" ELSE @]
    /\ UNCHANGED << tables, lock, env, wake_at, op, locals, at_entry, history,
                    stop_cleanup, joined, others, hook >>

(* lines 210-211: Thread.start() runs _periodic_cleanup(interval) up to its
   first wait (line 229), or raises RuntimeError for a thread that was
   started before *)
StartThread(t) ==
    /\ pc[t] = "st_start"
    /\ IF pc[cleanup_thread] = "new"
       THEN /\ pc' = [pc EXCEPT ![t] = "idle", ![cleanup_thread] = "pc_wait"]
            /\ op' = [op EXCEPT ![t] = "none", ![cleanup_thread] = "periodic"]
            /\ wake_at' = [wake_at EXCEPT
                              ![cleanup_thread] = now + cleanup_interval]
       ELSE /\ pc' = [pc EXCEPT ![t] = Raised]
            /\ op' = [op EXCEPT ![t] = "none"]
            /\ UNCHANGED wake_at
    /\ UNCHANGED << tables, lock, env, locals, at_entry, history, lifecycle, others >>

(* line 215 *)
StopSet(t) ==
    /\ pc[t] = "idle"
    /\ stop_cleanup' = TRUE
    /\ pc' = [pc EXCEPT ![t] = "sp_check"]
    /\ op' = [op EXCEPT ![t] = "stop"]
    /\ UNCHANGED << tables, lock, now, wake_at, locals, at_entry, history,
                    cleanup_thread, joined, others, hook >>

(* stop_periodic_cleanup is called *)
StopPeriodicCleanup(t) ==
    /\ hook = "none"
    /\ Spend
    /\ StopSet(t)

(* lines 216-217: no thread, or join() is entered *)
StopCheck(t) ==
    /\ pc[t] = "sp_check"
    /\ IF cleanup_thread = NoThread
       THEN Finish(t, "idle")
       ELSE /\ pc' = [pc EXCEPT ![t] = "sp_join"]
            /\ joined' = [joined EXCEPT ![t] = cleanup_thread]
            /\ UNCHANGED op
    /\ UNCHANGED << tables, lock, env, wake_at, locals, at_entry, history,
                    stop_cleanup, cleanup_thread, hook, others >>

(* The thread can stay alive for longer than the 5 seconds of line 217: it
   is in a close() call, or waits for the lock another thread holds, or
   sleeps in wait(interval) with the Event not set. *)
MayOutlast(r) ==
    \/ pc[r] \in {"cc_vs", "cc_db"}
    \/ pc[r] = "pc_lock" /\ lock # NoThread
    \/ pc[r] = "pc_wait" /\ ~stop_cleanup

(* A variant of JoinRaises that also refuses a thread that is over. *)
JoinRaisesUnlessAlive(r) == ~IsAlive(r)

(* line 217: Thread.join() raises RuntimeError for a thread that was not
   started *)
JoinRaises(r) == pc[r] = "new"

(* lines 217-218: join(timeout=5) raises RuntimeError for a thread that was
   not started; it returns when the thread is over, or after the 5 seconds
   with the thread alive *)
StopJoin(t) ==
    /\ pc[t] = "sp_join"
    /\ IF JoinRaises(joined[t])
       THEN Finish(t, Raised)
       ELSE /\ pc[joined[t]] = "off" \/ MayOutlast(joined[t])
            /\ Finish(t, "idle")
    /\ UNCHANGED << tables, lock, env, wake_at, locals, at_entry, history,
                    stop_cleanup, cleanup_thread, hook, others >>

(* line 229: wait(interval) returns True, the Event is set: the loop and the
   thread are over *)
PeriodicExit(t) ==
    /\ pc[t] = "pc_wait"
    /\ stop_cleanup
    /\ pc' = [pc EXCEPT ![t] = "off"]
    /\ op' = [op EXCEPT ![t] = "none"]
    /\ UNCHANGED << tables, lock, env, wake_at, locals, at_entry, history,
                    lifecycle, others >>

(* lines 229-232: wait(interval) times out *)
PeriodicWake(t) ==
    /\ pc[t] = "pc_wait"
    /\ ~stop_cleanup
    /\ now >= wake_at[t]
    /\ cleanup_time' = [cleanup_time EXCEPT ![t] = now]
    /\ clients_to_remove' = [clients_to_remove EXCEPT ![t] = {}]
    /\ Goto(t, "pc_lock")
    /\ UNCHANGED << tables, env, lifecycle, others, wake_at, key, cleanup_id, current_time,
                    client, history >>

(* lines 234 and 266: "with self._lock" of a scan; threading.Lock is not
   reentrant, so the thread that holds it waits here like any other *)
AcquireLock(t) ==
    /\ pc[t] \in {"pc_lock", "fc_lock"}
    /\ lock = NoThread
    /\ lock' = t
    /\ pc' = [pc EXCEPT ![t] = IF pc[t] = "pc_lock" THEN "pc_scan" ELSE "fc_scan"]
    /\ UNCHANGED << tables, env, lifecycle, others, wake_at, op, locals, at_entry, history >>

(* lines 235-246 and 271-274: the scan marks, the with-block ends *)
Scan(t) ==
    /\ pc[t] \in {"pc_scan", "fc_scan"}
    /\ clients_to_remove' =
          [clients_to_remove EXCEPT ![t] =
              IF pc[t] = "pc_scan"
              THEN {k \in DOMAIN last_used : IsExpired(k, cleanup_time[t])}
              ELSE {k \in DOMAIN last_used : IsIdleUnderPressure(k, cleanup_time[t])}]
    /\ at_entry' =
          [at_entry EXCEPT
              ![t].idle = HandlesOf({k \in DOMAIN last_used :
                                        IsIdle(k, cleanup_time[t])}),
              ![t].aged = HandlesOf({k \in DOMAIN last_used :
                                        IsAged(k, cleanup_time[t])})]
    /\ lock' = NoThread
    /\ pc' = [pc EXCEPT ![t] = IF pc[t] = "pc_scan" THEN "pc_loop" ELSE "fc_loop"]
    /\ UNCHANGED << tables, env, lifecycle, others, wake_at, op, key, cleanup_id, current_time,
                    cleanup_time, client, history >>

(* lines 154-155, 248-249 and 276-277: the next client_id of the loop, or
   its end (line 253: no statistics below an interval of 60) *)
ForLoop(t) ==
    /\ pc[t] \in {"ca_loop", "pc_loop", "fc_loop"}
    /\ IF clients_to_remove[t] # {}
       THEN \E k \in clients_to_remove[t] :
               /\ cleanup_id' = [cleanup_id EXCEPT ![t] = k]
               /\ clients_to_remove' =
                     [clients_to_remove EXCEPT ![t] = @ \ {k}]
               /\ Goto(t, "cc_check")
               /\ UNCHANGED << wake_at, key, current_time, cleanup_time, client >>
       ELSE CASE pc[t] = "ca_loop" -> Leave(t) /\ UNCHANGED wake_at
              [] pc[t] = "pc_loop" -> WaitAgain(t)
              [] pc[t] = "fc_loop" ->
                    Goto(t, "gc_create") /\ UNCHANGED << wake_at, locals >>
    /\ UNCHANGED << tables, env, lifecycle, others, history >>

-----------------------------------------------------------------------------
(* The server's stop hook: the finally block of mem0_lifespan in main.py,
   run by the server thread.  Its get_connection_count call (line 72) does
   not touch the pool. *)

(* main.py line 63: release_client("main_server") *)
HookRelease(t) ==
    /\ t = Server
    /\ hook \in {"none", "serving", "failed"}
    /\ managed.at = "none"
    /\ Spend
    /\ Begin(t, "release_client", MainServer, "rc_check")
    /\ hook' = "release"
    /\ held' = Released(MainServer)
    /\ UNCHANGED << tables, now, wake_at, cleanup_id, current_time,
                    cleanup_time, clients_to_remove, client, history,
                    stop_cleanup, cleanup_thread, joined, diag, single,
                    mem0_client, managed, teardown >>

(* main.py line 66: stop_periodic_cleanup(), once release_client returned *)
HookStop(t) ==
    /\ t = Server
    /\ hook = "release"
    /\ pc[t] = "idle"
    /\ stop_cleanup' = TRUE
    /\ pc' = [pc EXCEPT ![t] = "sp_check"]
    /\ op' = [op EXCEPT ![t] = "stop"]
    /\ hook' = "stop"
    /\ UNCHANGED << tables, lock, env, wake_at, locals, at_entry, history,
                    cleanup_thread, joined, others >>

(* main.py line 69: cleanup_all(), once stop_periodic_cleanup returned *)
HookCleanupAll(t) ==
    /\ t = Server
    /\ hook = "stop"
    /\ Begin(t, "cleanup_all", NoKey, "ca_loop")
    /\ clients_to_remove' = [clients_to_remove EXCEPT ![t] = DOMAIN clients]
    /\ hook' = "evict"
    /\ UNCHANGED << tables, env, wake_at, cleanup_id, current_time,
                    cleanup_time, client, history, stop_cleanup,
                    cleanup_thread, joined, others >>

(* main.py lines 72-79: the hook is over, its three calls made or one of
   them having raised (line 76) *)
HookFinished ==
    \/ hook = "evict" /\ pc[Server] = "idle"
    \/ hook \in {"release", "stop", "evict"} /\ pc[Server] = "raised"

-----------------------------------------------------------------------------

Call(t) ==
    \/ \E k \in Keys : GetClientCall(t, k)
    \/ \E k \in Keys : ReleaseCall(t, k)
    \/ CleanupAllCall(t)
    \/ StartPeriodicCleanup(t)
    \/ StopPeriodicCleanup(t)
    \/ HookRelease(t)

Step(t) ==
    \/ GetClientCheck(t)
    \/ ForceCleanupEnter(t)
    \/ GetClientCreate(t)
    \/ GetClientInit(t)
    \/ GetClientIncr(t)
    \/ GetClientReturn(t)
    \/ ReleaseCheck(t)
    \/ ReleaseDecr(t)
    \/ ReleaseTest(t)
    \/ CleanupCheck(t)
    \/ CleanupRead(t)
    \/ CleanupCloseVector(t)
    \/ CleanupCloseDb(t)
    \/ CleanupDelClient(t)
    \/ CleanupDelCount(t)
    \/ HookStop(t)
    \/ HookCleanupAll(t)
    \/ StartClear(t)
    \/ StartNew(t)
    \/ StartThread(t)
    \/ StopCheck(t)
    \/ StopJoin(t)
    \/ PeriodicExit(t)
    \/ PeriodicWake(t)
    \/ AcquireLock(t)
    \/ Scan(t)
    \/ ForLoop(t)

Next ==
    \/ Tick
    \/ \E t \in Callers : Call(t)
    \/ \E t \in Threads : Step(t)

Spec == Init /\ [][Next]_vars

(* A thread inside an operation keeps running. *)
FairSpec == Spec /\ \A t \in Threads : WF_vars(Step(t))

-----------------------------------------------------------------------------
(* get_connection_count *)

(* A variant of CountResult that answers 0 when the query raised. *)
CountResultZeroOnError(url, failed, n) == IF ~url \/ failed THEN 0 ELSE n

(* lines 169-170, 186 and 188-190: what is returned with DATABASE_URL set
   or not, the try block having raised or not, and n sessions counted *)
CountResult(url, failed, n) == IF ~url THEN 0 ELSE IF failed THEN -1 ELSE n

(* line 168: os.getenv('DATABASE_URL') finds a value or none *)
GetConnectionCount(t) ==
    /\ pc[t] = "idle"
    /\ hook = "none"
    /\ Spend
    /\ \E url \in BOOLEAN : database_url' = [database_url EXCEPT ![t] = url]
    /\ pc' = [pc EXCEPT ![t] = "cnt_query"]
    /\ op' = [op EXCEPT ![t] = "count"]
    /\ UNCHANGED << tables, lock, now, wake_at, locals, at_entry, history,
                    lifecycle, count, returned, single, extra >>

(* lines 169-190: without a URL 0 is returned; the connection and the query
   give a count, or something in the try block raises, before or after the
   count is there, and the except clause of line 188 runs *)
CountQuery(t) ==
    /\ pc[t] = "cnt_query"
    /\ \E failed \in BOOLEAN : \E n \in Counts :
          /\ ~database_url[t] => ~failed /\ n = 0
          /\ count' = [count EXCEPT ![t] =
                           IF database_url[t] THEN {n} ELSE NoCount]
          /\ returned' = [returned EXCEPT
                             ![t] = {CountResult(database_url[t], failed, n)}]
          /\ pc' = [pc EXCEPT ![t] = IF failed THEN "cnt_except"
                                               ELSE "cnt_return"]
    /\ UNCHANGED << tables, lock, env, wake_at, op, locals, at_entry, history,
                    lifecycle, database_url, single, extra >>

(* lines 170, 186 and 190: return *)
CountReturn(t) ==
    /\ pc[t] \in {"cnt_return", "cnt_except"}
    /\ pc' = [pc EXCEPT ![t] = "idle"]
    /\ op' = [op EXCEPT ![t] = "none"]
    /\ database_url' = [database_url EXCEPT ![t] = FALSE]
    /\ count' = [count EXCEPT ![t] = NoCount]
    /\ returned' = [returned EXCEPT ![t] = NoCount]
    /\ UNCHANGED << tables, lock, env, wake_at, locals, at_entry, history,
                    lifecycle, single, extra >>

-----------------------------------------------------------------------------
(* get_connection_manager *)

(* line 313 *)
GetConnectionManager(t) ==
    /\ pc[t] = "idle"
    /\ hook = "none"
    /\ Spend
    /\ pc' = [pc EXCEPT ![t] = IF connection_manager = NoManager
                                  THEN "gm_new" ELSE "gm_return"]
    /\ op' = [op EXCEPT ![t] = "accessor"]
    /\ UNCHANGED << tables, lock, now, wake_at, locals, at_entry, history,
                    lifecycle, diag, single, extra >>

(* line 314: ConnectionManager() builds an instance, the global is assigned *)
ManagerNew(t) ==
    /\ pc[t] = "gm_new"
    /\ built' = built + 1
    /\ connection_manager' = built + 1
    /\ pc' = [pc EXCEPT ![t] = "gm_return"]
    /\ UNCHANGED << tables, lock, env, wake_at, op, locals, at_entry, history,
                    lifecycle, diag, manager, extra >>

(* line 315 *)
ManagerReturn(t) ==
    /\ pc[t] = "gm_return"
    /\ manager' = [manager EXCEPT ![t] = connection_manager]
    /\ pc' = [pc EXCEPT ![t] = "idle"]
    /\ op' = [op EXCEPT ![t] = "none"]
    /\ UNCHANGED << tables, lock, env, wake_at, locals, at_entry, history,
                    lifecycle, diag, connection_manager, built, extra >>

-----------------------------------------------------------------------------
(* Two threads that call the operations which take no lock, side by side,
   on an empty pool; the cleanup threads they start scan it. *)

RaceCall(t) ==
    \/ StartPeriodicCleanup(t)
    \/ StopPeriodicCleanup(t)
    \/ GetConnectionCount(t)
    \/ GetConnectionManager(t)

RaceStep(t) ==
    \/ CountQuery(t)
    \/ CountReturn(t)
    \/ ManagerNew(t)
    \/ ManagerReturn(t)
    \/ StartClear(t)
    \/ StartNew(t)
    \/ StartThread(t)
    \/ StopCheck(t)
    \/ StopJoin(t)
    \/ PeriodicExit(t)
    \/ PeriodicWake(t)
    \/ AcquireLock(t)
    \/ Scan(t)
    \/ ForLoop(t)

RaceNext ==
    \/ Tick
    \/ \E t \in Racers : RaceCall(t)
    \/ \E t \in Threads : RaceStep(t)

RaceSpec == Init /\ [][RaceNext]_vars

-----------------------------------------------------------------------------
(* The server from its start hook to its stop hook: mem0_lifespan in main.py,
   run by the server thread.  get_connection_manager (line 37) and
   get_connection_count (line 48) do not touch the pool; the request handlers
   (lines 102, 122 and 145) use the handle of the lifespan context and make
   no call of the connection manager. *)

(* main.py line 41: start_periodic_cleanup(interval=300), up to line 199 *)
LifespanStart(t) ==
    /\ t = Server
    /\ hook = "none"
    /\ Spend
    /\ pc[t] = "idle"
    /\ pc' = [pc EXCEPT ![t] = IF CleanupRunning THEN "idle" ELSE "st_clear"]
    /\ op' = [op EXCEPT ![t] = IF CleanupRunning THEN "none" ELSE "start"]
    /\ hook' = "start"
    /\ UNCHANGED << tables, lock, now, wake_at, locals, at_entry, history,
                    stop_cleanup, cleanup_thread, joined, others >>

(* main.py line 44: get_client("main_server"), once start_periodic_cleanup
   returned; lines 63-64 of get_client *)
LifespanGetClient(t) ==
    /\ t = Server
    /\ hook = "start"
    /\ Begin(t, "get_client", MainServer, "gc_check")
    /\ current_time' = [current_time EXCEPT ![t] = now]
    /\ hook' = "acquire"
    /\ UNCHANGED << tables, env, wake_at, cleanup_id, cleanup_time,
                    clients_to_remove, client, history, stop_cleanup,
                    cleanup_thread, joined, others >>

(* main.py lines 48-51: get_client returned, the server runs *)
LifespanYield(t) ==
    /\ t = Server
    /\ hook = "acquire"
    /\ pc[t] = "idle"
    /\ hook' = "serving"
    /\ UNCHANGED << tables, ctl, env, wake_at, locals, history, stop_cleanup,
                    cleanup_thread, joined, others >>

(* main.py lines 53-58: get_client raised; the exception is passed on and the
   finally block of line 59 runs *)
LifespanExcept(t) ==
    /\ t = Server
    /\ hook = "acquire"
    /\ pc[t] = "raised"
    /\ pc' = [pc EXCEPT ![t] = "idle"]
    /\ hook' = "failed"
    /\ UNCHANGED << tables, op, lock, at_entry, env, wake_at, locals, history,
                    stop_cleanup, cleanup_thread, joined, others >>

(* main.py lines 59-63: the server stops *)
LifespanStop(t) ==
    /\ hook \in {"serving", "failed"}
    /\ HookRelease(t)

ServerStep(t) ==
    \/ LifespanGetClient(t)
    \/ LifespanYield(t)
    \/ LifespanExcept(t)
    \/ GetClientCheck(t)
    \/ GetClientCreate(t)
    \/ GetClientInit(t)
    \/ GetClientIncr(t)
    \/ GetClientReturn(t)
    \/ ReleaseCheck(t)
    \/ ReleaseDecr(t)
    \/ ReleaseTest(t)
    \/ CleanupCheck(t)
    \/ CleanupRead(t)
    \/ CleanupCloseVector(t)
    \/ CleanupCloseDb(t)
    \/ CleanupDelClient(t)
    \/ CleanupDelCount(t)
    \/ HookStop(t)
    \/ HookCleanupAll(t)
    \/ StartClear(t)
    \/ StartNew(t)
    \/ StartThread(t)
    \/ StopCheck(t)
    \/ StopJoin(t)
    \/ PeriodicExit(t)
    \/ PeriodicWake(t)
    \/ AcquireLock(t)
    \/ Scan(t)
    \/ ForLoop(t)

ServerNext ==
    \/ Tick
    \/ LifespanStart(Server)
    \/ LifespanStop(Server)
    \/ \E t \in Threads : ServerStep(t)

ServerSpec == Init /\ [][ServerNext]_vars

-----------------------------------------------------------------------------
(* managed_mem0_client: a with-block of a caller.  get_connection_manager
   (line 327) does not touch the pool. *)

(* lines 327-328: get_client(client_id) is called; the count the key has at
   that moment is kept as history *)
ManagedEnter(t, k) ==
    /\ Enter(t, "get_client", k, "gc_check")
    /\ current_time' = [current_time EXCEPT ![t] = now]
    /\ managed' = [at |-> "acquire", client_id |-> k,
                   before |-> Get(connection_counts, k, 0), raises |-> FALSE]
    /\ UNCHANGED << tables, now, lifecycle, diag, single, mem0_client, held,
                    teardown, wake_at, cleanup_id, cleanup_time, clients_to_remove,
                    client, history >>

(* line 328: get_client raised; the exception leaves managed_mem0_client
   before its try block *)
ManagedRaised(t) ==
    /\ managed.at = "acquire"
    /\ pc[t] = "raised"
    /\ pc' = [pc EXCEPT ![t] = "idle"]
    /\ managed' = NoContext
    /\ UNCHANGED << tables, op, lock, at_entry, env, wake_at, locals, history,
                    lifecycle, diag, single, mem0_client, held, teardown >>

(* lines 329-332: the body of the with-block ends, normally or by raising,
   and the finally clause calls release_client(client_id) *)
ManagedRelease(t) ==
    /\ managed.at = "acquire"
    /\ Begin(t, "release_client", managed.client_id, "rc_check")
    /\ \E r \in BOOLEAN : managed' = [managed EXCEPT !.at = "release", !.raises = r]
    /\ held' = Released(managed.client_id)
    /\ UNCHANGED << tables, env, lifecycle, diag, single, mem0_client, teardown,
                    wake_at, cleanup_id, current_time, cleanup_time, clients_to_remove,
                    client, history >>

(* line 332: release_client is over and the with-block is left *)
ManagedExit(t) ==
    /\ managed.at = "release"
    /\ pc[t] = "idle"
    /\ managed' = NoContext
    /\ UNCHANGED << tables, ctl, env, wake_at, locals, history, lifecycle,
                    diag, single, mem0_client, held, teardown >>

ManagedCall(t) ==
    \/ \E k \in Keys : ManagedEnter(t, k)
    \/ \E k \in Keys : GetClientCall(t, k)
    \/ \E k \in Keys : ReleaseCall(t, k)

ManagedStep(t) ==
    \/ ManagedRaised(t)
    \/ ManagedRelease(t)
    \/ ManagedExit(t)
    \/ GetClientCheck(t)
    \/ ForceCleanupEnter(t)
    \/ GetClientCreate(t)
    \/ GetClientInit(t)
    \/ GetClientIncr(t)
    \/ GetClientReturn(t)
    \/ ReleaseCheck(t)
    \/ ReleaseDecr(t)
    \/ ReleaseTest(t)
    \/ CleanupCheck(t)
    \/ CleanupRead(t)
    \/ CleanupCloseVector(t)
    \/ CleanupCloseDb(t)
    \/ CleanupDelClient(t)
    \/ CleanupDelCount(t)

ManagedNext ==
    \/ Tick
    \/ \E t \in Callers : ManagedCall(t)
    \/ \E t \in Callers : ManagedStep(t)

ManagedSpec == Init /\ [][ManagedNext]_vars

-----------------------------------------------------------------------------
(* The try block of _cleanup_client (lines 118-148) in detail, for one
   handle: which of the attributes the code probes with hasattr the handle
   has, and which close methods are called, in which order. *)

VectorShapes == {"close", "_client.close"}
DbShapes == {"connection.close", "engine.dispose"}
NoMethod == "none"

(* A variant of VectorMethod that prefers the wrapped client. *)
VectorMethodWrappedFirst(has) ==
    IF "_client.close" \in has THEN "_client.close"
    ELSE IF "close" \in has THEN "close" ELSE NoMethod

(* lines 124-129: vector_client.close if there is one, else
   vector_client._client.close if there is one *)
VectorMethod(has) ==
    IF "close" \in has THEN "close"
    ELSE IF "_client.close" \in has THEN "_client.close" ELSE NoMethod

(* lines 134-139: db.connection.close() if there is a connection, else
   db.engine.dispose() if there is an engine *)
DbMethod(has) ==
    IF "connection.close" \in has THEN "connection.close"
    ELSE IF "engine.dispose" \in has THEN "engine.dispose" ELSE NoMethod

(* lines 114-118: _cleanup_client is called for a client in the pool; the
   client has some of the attributes, or none *)
TeardownBegin ==
    /\ teardown.at = "none"
    /\ Spend
    /\ \E v \in SUBSET VectorShapes : \E d \in SUBSET DbShapes :
          teardown' = [at |-> "vector", vector |-> v, db |-> d, calls |-> << >>]
    /\ UNCHANGED << tables, ctl, now, wake_at, locals, history, lifecycle,
                    diag, single, mem0_client, managed, held >>

(* One close method is called, when there is one: it returns, or it raises
   and the except clause of line 147 is next. *)
TeardownClose(method, next) ==
    IF method = NoMethod
    THEN teardown' = [teardown EXCEPT !.at = next]
    ELSE \E ok \in BOOLEAN :
            teardown' = [teardown EXCEPT
                            !.at = IF ok THEN next ELSE "except",
                            !.calls = Append(@, method)]

(* lines 120-129 *)
TeardownVector ==
    /\ teardown.at = "vector"
    /\ TeardownClose(VectorMethod(teardown.vector), "db")
    /\ UNCHANGED << tables, ctl, env, wake_at, locals, history, lifecycle,
                    diag, single, mem0_client, managed, held >>

(* lines 132-139 *)
TeardownDb ==
    /\ teardown.at = "db"
    /\ TeardownClose(DbMethod(teardown.db), "del")
    /\ UNCHANGED << tables, ctl, env, wake_at, locals, history, lifecycle,
                    diag, single, mem0_client, managed, held >>

(* lines 142-148: the entry is deleted, or the exception is logged;
   _cleanup_client returns *)
TeardownEnd ==
    /\ teardown.at \in {"del", "except"}
    /\ teardown' = NoTeardown
    /\ UNCHANGED << tables, ctl, env, wake_at, locals, history, lifecycle,
                    diag, single, mem0_client, managed, held >>

TeardownNext ==
    \/ TeardownBegin
    \/ TeardownVector
    \/ TeardownDb
    \/ TeardownEnd

TeardownSpec == Init /\ [][TeardownNext]_vars

-----------------------------------------------------------------------------
(* Steps the properties below speak of *)

(* get_client returns a handle (line 83 finds it). *)
GetClientReturns(t) ==
    pc[t] = "gc_return" /\ pc'[t] = "idle" /\ key[t] \in DOMAIN clients

(* release_client returns with no close() having raised in its last step. *)
ReleaseReturns(t) ==
    op[t] = "release_client" /\ pc'[t] = "idle" /\ failures' = failures

(* cleanup_all comes to the end of its loop. *)
CleanupAllReturns(t) ==
    pc[t] = "ca_loop" /\ pc'[t] = "idle"

(* The thread is in the try block of _cleanup_client. *)
InTeardown(t) == pc[t] \in {"cc_vs", "cc_db", "cc_del_client", "cc_del_count"}

(* The cleanup thread ends the iteration of its loop that the scan began. *)
ScanEnds(t) ==
    op[t] = "periodic" /\ pc[t] # "pc_wait" /\ pc'[t] = "pc_wait"

(* No client in the pool is idle for more than half the idle timeout. *)
NothingIdle ==
    \A k \in DOMAIN clients :
        k \in DOMAIN last_used => ~IsIdleUnderPressure(k, now)

-----------------------------------------------------------------------------
(* C1: a get_client call for an absent key, made with the pool full and the
   lock free, always completes: it leaves get_client again, with a handle or
   with the factory's error. *)
C1_AcquireCompletes ==
    \A t \in Callers : (pc[t] = "gc_force") ~> (pc[t] = "idle")

(* C2: a get_client call for an absent key k, made with the pool full and
   no client idle for more than idle_timeout/2, admits k with count 1 beside
   the clients already there: the pool then holds more than max_pool_size. *)
C2_SoftLimitAdmits ==
    \A t \in Callers : \A k \in Keys :
        (pc[t] = "gc_force" /\ key[t] = k /\ NothingIdle)
            ~> (/\ k \in DOMAIN clients
                /\ Get(connection_counts, k, 0) = 1
                /\ Cardinality(DOMAIN clients) > max_pool_size)

(* C3: with the cleanup thread between scans, a get_client call that
   returns leaves the count of its key one above what it found (1 for an
   absent key), and a release_client call whose teardown does not fail
   leaves it one below what it found while that stays above 0, and removes
   the entry when it found 1. *)
C3_RefcountBalanced ==
    [][\A t \in Callers :
          LET k == key[t]
              e == at_entry[t]
          IN  /\ (GetClientReturns(t) /\ e.quiet) =>
                    /\ k \in DOMAIN connection_counts'
                    /\ connection_counts'[k] =
                          (IF e.present THEN e.count ELSE 0) + 1
              /\ (ReleaseReturns(t) /\ e.quiet /\ e.present /\ e.count >= 1) =>
                    IF e.count = 1
                    THEN /\ k \notin DOMAIN clients'
                         /\ k \notin DOMAIN connection_counts'
                    ELSE /\ k \in DOMAIN clients'
                         /\ k \in DOMAIN connection_counts'
                         /\ connection_counts'[k] = e.count - 1]_vars

(* C3's case: with the cleanup thread between scans, a release_client call
   that found its key with count 1 has taken the handle out of the pool and
   is about to take the count out. *)
C3_Witness ==
    \E t \in Callers :
        /\ op[t] = "release_client"
        /\ pc[t] = "cc_del_count"
        /\ at_entry[t].quiet /\ at_entry[t].present /\ at_entry[t].count = 1
        /\ key[t] \notin DOMAIN clients

(* C4: the factory is called only by a get_client call whose key has no
   entry; a handle stored under a key is never replaced while the entry
   stays; a get_client call that found an entry returns the handle it found;
   two keys never share a handle. *)
C4_CreateOrReuse ==
    [][/\ nextHandle' # nextHandle =>
             \E t \in Callers :
                 /\ pc[t] = "gc_create"
                 /\ key[t] \notin DOMAIN clients
                 /\ clients' = Put(clients, key[t], nextHandle)
       /\ \A k \in (DOMAIN clients) \cap (DOMAIN clients') :
             clients'[k] = clients[k]
       /\ \A t \in Callers :
             (GetClientReturns(t) /\ at_entry[t].present) =>
                 clients[key[t]] = at_entry[t].handle
       /\ \A k1, k2 \in DOMAIN clients' :
             k1 # k2 => clients'[k1] # clients'[k2]]_vars

(* C4's case: a get_client call that found its key present is about to
   return while another key holds another handle. *)
C4_Witness ==
    \E t \in Callers :
        /\ pc[t] = "gc_return"
        /\ at_entry[t].present
        /\ key[t] \in DOMAIN clients
        /\ \E k \in DOMAIN clients : k # key[t]

(* C5: when a scan of the cleanup thread ends, no handle whose client was
   idle for more than idle_timeout at the scan is left in the pool, whatever
   its count. *)
C5_IdleExpiredRemoved ==
    [][\A t \in Threads :
          ScanEnds(t) =>
              \A k \in DOMAIN clients' : clients'[k] \notin at_entry[t].idle]_vars

(* C6: when a scan of the cleanup thread ends, no handle whose client was
   created more than max_lifetime before the scan is left in the pool,
   whatever its count and its last use. *)
C6_LifetimeExpiredRemoved ==
    [][\A t \in Threads :
          ScanEnds(t) =>
              \A k \in DOMAIN clients' : clients'[k] \notin at_entry[t].aged]_vars

(* C7: when cleanup_all returns, the pool is empty and every handle that
   was in the pool when it was called has been torn down exactly once. *)
C7_EvictAllEmpties ==
    [][\A t \in Callers :
          CleanupAllReturns(t) =>
              /\ DOMAIN clients' = {}
              /\ \A h \in at_entry[t].pool : closeCalls'[h].vs = 1]_vars

(* C8: a teardown whose vector-store close() fails goes on to the database
   close(), and a teardown never ends with the handle it was tearing down
   still in the pool, nor (when it ran under the lock with the cleanup
   thread between scans) with its count. *)
C8_TeardownBestEffort ==
    [][\A t \in Threads :
          /\ (pc[t] = "cc_vs" /\ pc'[t] # "cc_vs") => pc'[t] = "cc_db"
          /\ (InTeardown(t) /\ ~InTeardown(t)') =>
                /\ Get(clients', cleanup_id[t], NoHandle) # client[t]
                /\ (lock = t /\ ReclaimerQuiet =>
                       cleanup_id[t] \notin DOMAIN connection_counts')]_vars

(* C9: every count stored in the pool is >= 0. *)
C9_RefcountNonNegative ==
    \A k \in DOMAIN connection_counts : connection_counts[k] >= 0

(* C10: a step that changes the handle table or the count table is taken
   by the thread that holds the lock. *)
C10_MutationsUnderLock ==
    [][\A t \in Threads :
          (pc'[t] # pc[t] /\
           (clients' # clients \/ connection_counts' # connection_counts))
              => lock = t]_vars

(* The teardown of handle h has started: a thread is in the try block of
   _cleanup_client with h, or a close() of h has been called. *)
TeardownStarted(h) ==
    \/ \E u \in Threads : InTeardown(u) /\ client[u] = h
    \/ closeCalls[h].vs > 0
    \/ closeCalls[h].db > 0

(* C11: get_client never returns a handle whose teardown has started. *)
C11_NoHalfTornDownHandle ==
    [][\A t \in Callers :
          GetClientReturns(t) => ~TeardownStarted(clients[key[t]])]_vars

(* release_client is at line 101 with a key that has neither a client nor a
   count. *)
ReleaseFindsNothing(t) ==
    /\ pc[t] = "rc_check"
    /\ key[t] \notin DOMAIN clients
    /\ key[t] \notin DOMAIN connection_counts

(* C12: release_client for a key with no entry returns from line 101: it
   raises nothing, calls no close() and leaves the clients, the counts and
   the timestamps of every key as they are. *)
C12_ReleaseAbsentNoOp ==
    [][\A t \in Callers :
          (ReleaseFindsNothing(t) /\ pc'[t] # pc[t]) =>
              /\ pc'[t] = "idle"
              /\ UNCHANGED << tables, closeCalls, failures >>]_vars

(* C12's case: release_client looks up a key that has no entry while the
   pool holds a client under another key. *)
C12_Witness ==
    \E t \in Callers : ReleaseFindsNothing(t) /\ DOMAIN clients # {}

(* Handle h has been torn down: both of its close() steps have been called. *)
TornDown(h) == closeCalls[h].vs > 0 /\ closeCalls[h].db > 0

(* C13: when the server's stop hook is over it has made its three calls in
   order (release_client("main_server"), stop_periodic_cleanup,
   cleanup_all), the pool is empty, every handle built so far has been torn
   down and no cleanup thread is in a scan. *)
C13_ShutdownSequence ==
    HookFinished =>
        /\ hook = "evict"
        /\ pc[Server] = "idle"
        /\ DOMAIN clients = {}
        /\ \A h \in Handles : h < nextHandle => TornDown(h)
        /\ \A r \in Reclaimers : pc[r] \in {"off", "new", "pc_wait"}

(* The cleanup threads whose loop is running. *)
RunningLoops == {r \in Reclaimers : IsAlive(r)}

(* C14: whatever start_periodic_cleanup calls are made, two of them side by
   side included, at most one cleanup loop is running. *)
C14_AtMostOneLoop == Cardinality(RunningLoops) <= 1

(* stop_periodic_cleanup returns from its join (line 217). *)
StopReturns(t) == pc[t] = "sp_join" /\ pc'[t] = "idle"

(* C15: once stop_periodic_cleanup is called with a cleanup loop running,
   the loop comes to its end; a loop that finds the Event set in its wait
   begins no scan; and stop_periodic_cleanup returns only when the loop it
   joined is over. *)
C15_StopWaitsForLoop ==
    /\ \A r \in Reclaimers : (IsAlive(r) /\ stop_cleanup) ~> ~IsAlive(r)
    /\ [][\A r \in Reclaimers :
             (pc[r] = "pc_wait" /\ stop_cleanup /\ pc'[r] # "pc_wait") =>
                 pc'[r] = "off"]_vars
    /\ [][\A t \in Callers : StopReturns(t) => ~IsAlive(joined[t])]_vars

(* The thread is in stop_periodic_cleanup. *)
InStop(t) == pc[t] \in {"sp_check", "sp_join"}

(* stop_periodic_cleanup passes the RuntimeError of join() on. *)
StopRaises(t) == pc[t] = "sp_join" /\ JoinRaises(joined[t]) /\ pc'[t] # "sp_join"

(* C16: stop_periodic_cleanup, called before any start_periodic_cleanup or
   again after an earlier call, raises nothing, leaves the clients and
   their counts as they are, and returns: at once when there is no cleanup
   thread, and from its join when the thread is over. *)
C16_StopAlwaysSafe ==
    [][\A t \in Callers :
          /\ ~StopRaises(t)
          /\ (pc[t] = "idle" /\ pc'[t] = "sp_check") =>
                 UNCHANGED << clients, connection_counts >>
          /\ (InStop(t) /\ pc'[t] # pc[t]) =>
                 UNCHANGED << clients, connection_counts >>
          /\ (pc[t] = "sp_check" /\ pc'[t] # pc[t] /\ cleanup_thread = NoThread) =>
                 pc'[t] = "idle"
          /\ (pc[t] = "sp_join" /\ pc'[t] # pc[t]) => pc'[t] = "idle"
          /\ (pc[t] = "sp_join" /\ ~IsAlive(joined[t])) =>
                 ENABLED StopJoin(t)]_vars

(* C16's case: stop_periodic_cleanup is called again and joins a cleanup
   thread that an earlier call has already stopped, with a client in the
   pool. *)
C16_Witness ==
    \E t \in Callers :
        /\ pc[t] = "sp_join"
        /\ pc[joined[t]] = "off"
        /\ DOMAIN clients # {}

(* C17: a close() that raises inside the cleanup loop leaves the thread in
   the loop over the marked clients; an iteration ends only with every
   marked client visited; and the loop ends only with the Event set. *)
C17_LoopSurvivesFailures ==
    [][\A r \in Reclaimers :
          /\ (op[r] = "periodic" /\ InTeardown(r) /\ pc'[r] # pc[r]
                 /\ failures' > failures) =>
                 pc'[r] = "pc_loop"
          /\ ScanEnds(r) => clients_to_remove[r] = {}
          /\ (IsAlive(r) /\ pc'[r] = "off") => stop_cleanup]_vars

-----------------------------------------------------------------------------
(* get_connection_count returns on this step. *)
CountReturns(t) == pc[t] \in {"cnt_return", "cnt_except"} /\ pc'[t] = "idle"

(* get_connection_count is running in thread t. *)
InCount(t) == pc[t] \in {"cnt_query", "cnt_return", "cnt_except"}

(* C19, as stated: get_connection_count never raises; every failure to obtain
   the count, a missing connection string included, is reported as -1; and no
   step of the call changes the pool's tables. *)
C19_EveryFailureIsSentinel ==
    [][\A t \in Racers :
          /\ InCount(t) /\ pc'[t] # pc[t] =>
                 /\ pc'[t] \in {"cnt_return", "cnt_except", "idle"}
                 /\ UNCHANGED << tables, lock >>
          /\ CountReturns(t) /\ (~database_url[t] \/ pc[t] = "cnt_except") =>
                 returned[t] = {-1}]_vars

(* C19, amended: get_connection_count never raises and changes no pool state;
   it returns 0 when DATABASE_URL is unset or empty, -1 when connecting or
   querying raised, and the count the query gave otherwise. *)
C19_CountNeverRaises ==
    [][\A t \in Racers :
          /\ InCount(t) /\ pc'[t] # pc[t] =>
                 /\ pc'[t] \in {"cnt_return", "cnt_except", "idle"}
                 /\ UNCHANGED << tables, lock >>
          /\ CountReturns(t) =>
                 returned[t] = IF ~database_url[t] THEN {0}
                               ELSE IF pc[t] = "cnt_except" THEN {-1}
                               ELSE count[t]]_vars

(* A query that raised is about to return its sentinel while another call,
   made without DATABASE_URL, is about to return too. *)
C19_Witness ==
    \E t, u \in Racers :
        /\ pc[t] = "cnt_except" /\ database_url[t] /\ returned[t] = {-1}
        /\ pc[u] = "cnt_return" /\ ~database_url[u] /\ returned[u] = {0}


-----------------------------------------------------------------------------
(* C20: every call of get_connection_manager returns the same instance, also
   when the first calls run concurrently, and ConnectionManager() is
   constructed exactly once. *)
C20_SingletonUnique ==
    /\ built <= 1
    /\ \A t, u \in Racers :
          manager[t] # NoManager /\ manager[u] # NoManager =>
              manager[t] = manager[u]


-----------------------------------------------------------------------------
(* No pool operation is in progress: no caller is inside a method and no
   cleanup thread is inside an iteration of its loop. *)
PoolAtRest ==
    /\ \A t \in Racers : op[t] = "none"
    /\ \A r \in Reclaimers : pc[r] \in {"off", "new", "pc_wait"}

(* get_client is between the creation of the entry of k (line 74) and the
   assignment of its last use (line 79). *)
Creating(k) ==
    \E t \in Racers : key[t] = k /\ pc[t] \in {"gc_init", "gc_incr"}

(* The thread takes a step of get_client for a key it found in the pool. *)
AcquiresPresent(t) ==
    op[t] = "get_client" /\ at_entry[t].present /\ pc'[t] # pc[t]

(* C28: get_client for a key that has an entry changes nothing but the count
   of that key, which goes up by one, and its last use, which becomes the
   time of the call: the handle and the creation time of the key, and all
   four records of every other key, stay as they are. *)
C28_AcquirePresentFrame ==
    [][\A t \in Callers :
          AcquiresPresent(t) =>
              LET k == key[t]
              IN  /\ UNCHANGED << clients, client_created_time >>
                  /\ \A x \in Keys \ {k} :
                        /\ Get(connection_counts', x, -1) =
                               Get(connection_counts, x, -1)
                        /\ Get(last_used', x, -1) = Get(last_used, x, -1)
                  /\ (connection_counts' # connection_counts \/
                      last_used' # last_used) =>
                        /\ k \in DOMAIN connection_counts
                        /\ connection_counts' =
                               Put(connection_counts, k, connection_counts[k] + 1)
                        /\ last_used' = Put(last_used, k, current_time[t])
                  /\ (GetClientReturns(t) /\ at_entry[t].quiet) =>
                        /\ connection_counts[k] = at_entry[t].count + 1
                        /\ last_used[k] = current_time[t]]_vars

(* C28's case: get_client found its key with a count of at least 1, has
   counted the call and is about to return, with another key in the pool. *)
C28_Witness ==
    \E t \in Callers :
        /\ pc[t] = "gc_return"
        /\ at_entry[t].present /\ at_entry[t].count >= 1
        /\ current_time[t] > Get(client_created_time, key[t], 0)
        /\ \E x \in DOMAIN clients : x # key[t]

(* C29: every key in the pool has a creation time and a last use, and the
   creation time is not after the last use; a key that was removed and
   created again is no exception.  (Between line 74 and line 79 the entry is
   not yet complete.) *)
C29_CreatedBeforeUsed ==
    \A k \in DOMAIN clients :
        ~Creating(k) =>
            /\ k \in DOMAIN client_created_time
            /\ k \in DOMAIN last_used
            /\ client_created_time[k] <= last_used[k]

(* C30: with no pool operation in progress the four tables have the same
   keys. *)
C30_TablesSameKeys ==
    PoolAtRest =>
        /\ DOMAIN connection_counts = DOMAIN clients
        /\ DOMAIN last_used = DOMAIN clients
        /\ DOMAIN client_created_time = DOMAIN clients

(* C24: get_client ends in one of two ways only: the factory raised, or it
   returns the handle stored under its key, whose count is then at least 1;
   and it never leaves a handle under its key without a count. *)
C24_AcquireSoundUnderEviction ==
    [][\A t \in Callers :
          (op[t] = "get_client" /\ pc'[t] = "idle") =>
              /\ \/ pc[t] = "gc_create"
                 \/ /\ pc[t] = "gc_return"
                    /\ key[t] \in DOMAIN clients
                    /\ Get(connection_counts, key[t], 0) >= 1
              /\ key[t] \in DOMAIN clients' =>
                    key[t] \in DOMAIN connection_counts']_vars

(* C25: no handle has a close() of its vector store or of its database
   called more than once: no handle is torn down twice. *)
C25_TeardownAtMostOnce ==
    \A h \in Handles : closeCalls[h].vs <= 1 /\ closeCalls[h].db <= 1


-----------------------------------------------------------------------------
(* The client of k is idle, at time t, for more than half the idle timeout. *)
IdleOverHalf(k, t) == 2 * (t - last_used[k]) > idle_timeout

(* The pool holds a client under k that is idle for that long now. *)
InPoolIdleOverHalf(k) ==
    k \in DOMAIN clients /\ k \in DOMAIN last_used /\ IdleOverHalf(k, now)

(* C26: _force_cleanup_idle_connections is entered only by a get_client call
   for an absent key that finds the pool full; its scan marks the keys idle
   for more than idle_timeout/2 and no other, whatever their count; and the
   clients it finds idle for that long are then removed. *)
C26_PressureEviction ==
    /\ [][\A t \in Threads :
             (pc[t] # "gc_force" /\ pc'[t] = "gc_force") =>
                 /\ pc[t] = "gc_check"
                 /\ key[t] \notin DOMAIN clients
                 /\ Cardinality(DOMAIN clients) >= max_pool_size]_vars
    /\ [][\A t \in Threads :
             (pc[t] = "fc_scan" /\ pc'[t] # "fc_scan") =>
                 clients_to_remove'[t] =
                     {k \in DOMAIN last_used : IdleOverHalf(k, cleanup_time[t])}]_vars
    /\ \A t \in Callers : \A k \in Keys :
          (pc[t] = "gc_force" /\ InPoolIdleOverHalf(k))
              ~> (k \notin DOMAIN clients)


-----------------------------------------------------------------------------
(* Some caller has been returned handle h under key k and has not released
   it. *)
StillHeld(k, h) == \E i \in 1..Len(held[k]) : held[k][i] = h

(* release_client goes on to tear the client of its key down (line 106). *)
ReleaseTearsDown(t) ==
    op[t] = "release_client" /\ pc[t] = "rc_test" /\ pc'[t] = "cc_check"

(* C23: release_client never begins the teardown of a handle that a caller
   still holds: not when the releasing caller's own handle of the key was
   removed by the cleanup thread and the key was created again for another
   caller. *)
C23_ReleaseSparesHeldHandle ==
    [][\A t \in Callers :
          ReleaseTearsDown(t) =>
              ~StillHeld(key[t], Get(clients, key[t], NoHandle))]_vars


-----------------------------------------------------------------------------
(* C22: while the server runs, from the yield of the start hook to the stop
   hook, the handle the request handlers use has had no teardown begun,
   however much time has passed and however many scans have run. *)
C22_ServingHandleAlive ==
    hook = "serving" => ~TeardownStarted(mem0_client)


-----------------------------------------------------------------------------
(* The with-block of managed_mem0_client is left after its release. *)
ManagedExits ==
    managed.at = "release" /\ managed'.at = "none"

(* C21: managed_mem0_client calls get_client for its key on entry and, when
   that returned, release_client for the same key once the body is over,
   normally or by raising; when the block is left the count of the key is
   what it was before the block, and a key that had no count before is no
   longer in the pool. *)
C21_ManagedPairs ==
    [][\A t \in Callers :
          /\ (managed.at = "none" /\ managed'.at # "none") =>
                 /\ op'[t] = "get_client"
                 /\ key'[t] = managed'.client_id
          /\ (managed.at = "acquire" /\ managed'.at # "acquire") =>
                 \/ pc[t] = "raised" /\ managed'.at = "none"
                 \/ /\ managed'.at = "release"
                    /\ op'[t] = "release_client"
                    /\ key'[t] = managed.client_id
          /\ (managed.at = "release" /\ pc'[t] # pc[t]) =>
                 op[t] = "release_client"
          /\ ManagedExits =>
                 LET k == managed.client_id
                 IN  /\ Get(connection_counts, k, 0) = managed.before
                     /\ managed.before = 0 => k \notin DOMAIN clients]_vars


-----------------------------------------------------------------------------
(* The close methods of the set ms that the teardown has called so far. *)
Called(ms) == {i \in 1..Len(teardown.calls) : teardown.calls[i] \in ms}

(* C27: a teardown calls at most one close method of the vector store and at
   most one of the database, the vector store's before the database's; of
   the vector store it calls close when there is one and the wrapped
   client's close otherwise, of the database the connection's close when
   there is a connection and the engine's dispose otherwise; and once the
   vector store's step is over without a failure, the method the handle has
   was called. *)
C27_TeardownOrder ==
    /\ Cardinality(Called(VectorShapes)) <= 1
    /\ Cardinality(Called(DbShapes)) <= 1
    /\ \A i \in Called(VectorShapes) : \A j \in Called(DbShapes) : i < j
    /\ \A i \in Called(VectorShapes) :
          /\ teardown.calls[i] \in teardown.vector
          /\ teardown.calls[i] = "_client.close" => "close" \notin teardown.vector
    /\ \A j \in Called(DbShapes) :
          /\ teardown.calls[j] \in teardown.db
          /\ teardown.calls[j] = "engine.dispose" =>
                 "connection.close" \notin teardown.db
    /\ (teardown.at \in {"db", "del"} /\ teardown.vector # {}) =>
          Called(VectorShapes) # {}
    /\ (teardown.at = "del" /\ teardown.db # {}) => Called(DbShapes) # {}

(* C27's case: a handle with both shapes of both resources has had its
   vector store and its database closed. *)
C27_Witness ==
    /\ teardown.at = "del"
    /\ teardown.vector = VectorShapes
    /\ teardown.db = DbShapes
    /\ teardown.calls = << "close", "connection.close" >>

-----------------------------------------------------------------------------
(* The factory raises at line 74: get_client was about to build the client
   of a key it found absent, with the pool below max_pool_size, and the
   thread is out of the method in the next state. *)
CreateRaises(t) ==
    /\ pc[t] = "gc_create"
    /\ pc'[t] \in {"idle", "raised"}

(* C31: when _create_client raises in get_client for an absent key with the
   pool below max_pool_size, the call has stored nothing: neither its
   lookup (lines 66-68) nor the failing line 74 writes a handle, a count or
   a timestamp, for the key or for any other key; the key has no handle
   afterwards, no handle is used up and no close() is called; and the lock
   is free again with the thread out of the method, so that the next call
   can take it. *)
C31_FailedAcquireNoChange ==
    [][\A t \in Callers :
          /\ (pc[t] = "gc_check" /\ pc'[t] # pc[t]) => UNCHANGED tables
          /\ CreateRaises(t) =>
              /\ ~at_entry[t].present
              /\ Cardinality(DOMAIN clients) < max_pool_size
              /\ UNCHANGED << tables, nextHandle, closeCalls >>
              /\ key[t] \notin DOMAIN clients'
              /\ lock = t /\ lock' = NoThread
              /\ op'[t] = "none"]_vars

(* C31's case: the factory has raised in an earlier get_client, and a later
   get_client has taken the lock, built a client and is about to return it,
   with a client of another key in the pool. *)
C31_Witness ==
    \E t \in Callers :
        /\ factory_raised
        /\ pc[t] = "gc_return"
        /\ ~at_entry[t].present
        /\ \E x \in DOMAIN clients : x # key[t]

-----------------------------------------------------------------------------
(* start_periodic_cleanup returns: from line 199, having found the thread
   alive, or from line 211, having started a new one. *)
StartReturns(t) ==
    \/ /\ pc[t] = "idle" /\ CleanupRunning
       /\ events' # events
       /\ UNCHANGED << pc, now, hook >>
    \/ pc[t] = "st_start" /\ pc'[t] = "idle"

(* A cleanup loop is running and its next wait(interval) will not end it:
   the thread of self._cleanup_thread is alive and the Event is not set. *)
LoopKeepsScanning == CleanupRunning /\ ~stop_cleanup

(* C32: when start_periodic_cleanup returns, a cleanup loop is running and
   goes on scanning until the next stop_periodic_cleanup, also when the call
   comes right after a stop_periodic_cleanup whose join(timeout=5) ran out
   with the loop still alive. *)
C32_StartLeavesLoopRunning ==
    [][\A t \in Callers : StartReturns(t) => LoopKeepsScanning']_vars


=============================================================================
